---- MODULE Spec2Model ----
(***************************************************************************)
(* Dataset splitting engine of analyzer/views.py: _split_dataframe         *)
(* (uniform 60/20/20 split) and _stratified_split (per-label split).       *)
(*                                                                         *)
(* A table is a sequence of label values; row i of the table is identified *)
(* by its position i (1-based here, 0-based in the source), which stands   *)
(* for the row's content.  A partition is a sequence of row positions.     *)
(***************************************************************************)
EXTENDS Integers, Sequences, FiniteSets, TLC

\* Largest number of rows of the enumerated tables.
MaxRows == 5

\* Fixed-point denominator of a ratio: a ratio r is the integer r * 10^7, so
\* that the tolerance 1e-6 of the ratio check is a whole number of units.
Denom == 10000000

\* The missing label (NaN after na_values=['?']).
NA == "nan"

\* Label values of the enumerated tables.
Labels == {"tcp", NA}

\* groupby(sort=True, dropna=False): keys ascending, the NaN key last.
KeyOrder == <<"icmp", "tcp", "udp", NA>>

Seeds == {7, 42}

DefaultRatios == <<6000000, 2000000, 2000000>>

\* (0.6,0.2,0.2), (0.5,0.3,0.2000005) within the tolerance,
\* (0.5,0.3,0.3) and (0.6,0.2,0.200002) outside it.
RatioChoices ==
  { DefaultRatios,
    <<5000000, 3000000, 2000005>>,
    <<5000000, 3000000, 3000000>>,
    <<6000000, 2000000, 2000020>> }

\* The table of the proportion example: 100 rows, 50 / 30 / 20 per label,
\* the labels interleaved.
ExampleTable ==
  [i \in 1..100 |->
     IF (i % 10) \in 0..4 THEN "icmp"
     ELSE IF (i % 10) \in 5..7 THEN "tcp" ELSE "udp"]

SmallTables == UNION {[1..n -> Labels] : n \in 0..MaxRows}

Tables == SmallTables \cup {ExampleTable}

VARIABLES
  df,        \* the input table of the current call
  seed,      \* the seed passed to the splitters
  ratios,    \* the ratios passed to _stratified_split
  pc,        \* "ready" | "returned" | "raised"
  fn,        \* the splitter called last: "" | "uniform" | "stratified"
  train,     \* the three returned partitions (row positions of df)
  val,
  test,
  err,       \* the exception raised by the call, "" when none
  rng,       \* the generator of the last call: <<>> or <<its state>>
  shuffles,  \* permutations drawn during the last call
  prev       \* <<>> or <<the record of the call before the current one>>

vars == <<df, seed, ratios, pc, fn, train, val, test, err, rng, shuffles, prev>>

----------------------------------------------------------------------------
\* Helpers

Range(s) == {s[i] : i \in DOMAIN s}

Abs(x) == IF x < 0 THEN 0 - x ELSE x

Min2(a, b) == IF a < b THEN a ELSE b

\* np.arange(n), as a sequence
arange(n) == SubSeq([i \in 1..n |-> i], 1, n)

\* Variant of IntTrunc: rounding to nearest, as round(r * n) would.
IntRound(r, n) == (r * n + Denom \div 2) \div Denom
\* int(r * n) for a non-negative ratio r: truncation of the product.
IntTrunc(r, n) == (r * n) \div Denom

\* Variant of Slice: the slice starts one position late.
SliceOffByOne(x, a, b) == SubSeq(x, Min2(a, Len(x)) + 2, Min2(b, Len(x)))
\* Python slice x[a:b] for 0 <= a, 0 <= b (bounds clamped to the length).
Slice(x, a, b) == SubSeq(x, Min2(a, Len(x)) + 1, Min2(b, Len(x)))

\* rows.iloc[idx]: the rows at the given positions, in that order.
iloc(rows, idx) == SubSeq([k \in 1..Len(idx) |-> rows[idx[k]]], 1, Len(idx))

\* The bit generator: a 16-bit linear congruential generator whose output is
\* the high byte of its state.
BitGenNext(s) == (s * 25173 + 13849) % 65536

BitGenOut(s) == s \div 256

\* Variant of default_rng: one module-level generator, seeded once and kept
\* from call to call.
default_rng_global(sd) ==
  IF rng = <<>> THEN (sd * 40503 + 12345) % 65536 ELSE rng[1]
\* np.random.default_rng(seed): a fresh generator whose state is a function
\* of the seed alone.
default_rng(sd) == (sd * 40503 + 12345) % 65536

\* np.random.RandomState(seed), which DataFrame.sample(random_state=seed)
\* builds: a fresh legacy generator, seeded by another mixing.
RandomState(sd) == (sd * 2053 + 977) % 65536

\* Generator.shuffle: Fisher-Yates, for i from the last position down to the
\* second: draw j in 0..i and swap x[i], x[j]; one bounded draw per position,
\* none for sequences shorter than 2.  ShuffleRange runs the loop for
\* i = hi, hi-1, ..., lo by halves, the upper positions first (the test on
\* upper.state makes the upper half be evaluated before the lower one).
RECURSIVE ShuffleRange(_, _, _, _)
ShuffleRange(x, hi, lo, s) ==
  IF hi < lo THEN [arr |-> x, state |-> s]
  ELSE IF hi = lo
  THEN LET s1 == BitGenNext(s)
           j  == (BitGenOut(s1) % hi) + 1
       IN  [arr |-> [x EXCEPT ![hi] = x[j], ![j] = x[hi]], state |-> s1]
  ELSE LET mid   == (hi + lo) \div 2
           upper == ShuffleRange(x, hi, mid + 1, s)
       IN  IF upper.state >= 0
           THEN ShuffleRange(upper.arr, mid, lo, upper.state)
           ELSE upper

shuffle(x, s) == ShuffleRange(x, Len(x), 2, s)

\* frame.sample(frac=1.0, random_state=seed).reset_index(drop=True): the rows
\* in the order of a permutation drawn from a fresh RandomState(seed).
sample(rows, sd) == iloc(rows, shuffle(arange(Len(rows)), RandomState(sd)).arr)

\* pd.concat(parts, axis=0)
RECURSIVE concat(_)
concat(parts) == IF parts = <<>> THEN <<>> ELSE Head(parts) \o concat(Tail(parts))

\* Variant of ValidRatios: no check at all.
ValidRatiosUnchecked(r) == TRUE
\* abs(sum(ratios) - 1.0) < 1e-6
ValidRatios(r) == Abs(r[1] + r[2] + r[3] - Denom) < Denom \div 1000000

----------------------------------------------------------------------------
\* _split_dataframe

SplitResult(d, sd) ==
  LET n  == Len(d)
      sh == shuffle(arange(n), default_rng(sd))
      t1 == IntTrunc(6000000, n)
      t2 == IntTrunc(8000000, n)
  IN  [train |-> Slice(sh.arr, 0, t1),
       val   |-> Slice(sh.arr, t1, t2),
       test  |-> Slice(sh.arr, t2, n),
       rng   |-> sh.state]

----------------------------------------------------------------------------
\* _stratified_split

\* Variant of GroupKeys: groupby's default dropna=True, without the NaN key.
GroupKeysDropna(d) == SelectSeq(KeyOrder, LAMBDA k : k \in Range(d) /\ k # NA)
\* Variant of GroupKeys: sort=False, the keys in order of first appearance.
GroupKeysUnsorted(d) ==
  LET first(k) == CHOOSE i \in 1..Len(d) : d[i] = k /\ \A j \in 1..(i-1) : d[j] # k
      RECURSIVE ord(_)
      ord(ks) == IF ks = {} THEN <<>>
                 ELSE LET k == CHOOSE a \in ks : \A b \in ks : first(a) <= first(b)
                      IN  <<k>> \o ord(ks \ {k})
  IN  ord(Range(d))
\* The keys of df.groupby(label_col, dropna=False), in iteration order.
GroupKeys(d) == SelectSeq(KeyOrder, LAMBDA k : k \in Range(d))

\* The rows of one group, in table order.
GroupRows(d, k) == SelectSeq(arange(Len(d)), LAMBDA i : d[i] = k)

\* Variant of GroupCut: the validation slice ends at n_val.
GroupCutNoOffset(group, idx, r) ==
  LET n       == Len(group)
      n_train == IntTrunc(r[1], n)
      n_val   == IntTrunc(r[2], n)
  IN  [train |-> iloc(group, Slice(idx, 0, n_train)),
       val   |-> iloc(group, Slice(idx, n_train, n_val)),
       test  |-> iloc(group, Slice(idx, n_train + n_val, n))]
\* The three slices of one shuffled group: n_train, n_val and the remainder.
GroupCut(group, idx, r) ==
  LET n       == Len(group)
      n_train == IntTrunc(r[1], n)
      n_val   == IntTrunc(r[2], n)
  IN  [train |-> iloc(group, Slice(idx, 0, n_train)),
       val   |-> iloc(group, Slice(idx, n_train, n_train + n_val)),
       test  |-> iloc(group, Slice(idx, n_train + n_val, n))]

\* Variant of AppendPart: the list is replaced instead of extended.
OverwritePart(parts, part) == <<part>>
\* parts.append(part)
AppendPart(parts, part) == Append(parts, part)

\* The loop over the groups: one generator, advanced group after group.
RECURSIVE GroupLoop(_, _, _, _, _)
GroupLoop(d, keys, r, s, acc) ==
  IF keys = <<>> THEN [parts |-> acc, rng |-> s]
  ELSE LET group == GroupRows(d, Head(keys))
           sh    == shuffle(arange(Len(group)), s)
           cut   == GroupCut(group, sh.arr, r)
       IN  GroupLoop(d, Tail(keys), r, sh.state,
                     [train |-> AppendPart(acc.train, cut.train),
                      val   |-> AppendPart(acc.val, cut.val),
                      test  |-> AppendPart(acc.test, cut.test)])

StratifiedParts(d, sd, r) ==
  GroupLoop(d, GroupKeys(d), r, default_rng(sd),
            [train |-> <<>>, val |-> <<>>, test |-> <<>>])

----------------------------------------------------------------------------
\* The state machine

CallRecord ==
  [fn |-> fn, df |-> df, seed |-> seed, ratios |-> ratios, pc |-> pc,
   train |-> train, val |-> val, test |-> test, err |-> err]

Init ==
  /\ df \in Tables
  /\ seed \in Seeds
  /\ ratios \in RatioChoices
  /\ pc = "ready"
  /\ fn = ""
  /\ train = <<>>
  /\ val = <<>>
  /\ test = <<>>
  /\ err = ""
  /\ rng = <<>>
  /\ shuffles = 0
  /\ prev = <<>>

\* Variant of split_dataframe: the table itself is reordered by the shuffle.
split_dataframe_inplace ==
  /\ pc = "ready"
  /\ LET res == SplitResult(df, seed)
     IN  /\ train' = res.train
         /\ val' = res.val
         /\ test' = res.test
         /\ rng' = <<res.rng>>
         /\ df' = iloc(df, res.train \o res.val \o res.test)
  /\ shuffles' = 1
  /\ fn' = "uniform"
  /\ pc' = "returned"
  /\ err' = ""
  /\ UNCHANGED <<seed, ratios, prev>>
\* _split_dataframe(df, seed)
split_dataframe ==
  /\ pc = "ready"
  /\ LET res == SplitResult(df, seed)
     IN  /\ train' = res.train
         /\ val' = res.val
         /\ test' = res.test
         /\ rng' = <<res.rng>>
  /\ shuffles' = 1
  /\ fn' = "uniform"
  /\ pc' = "returned"
  /\ err' = ""
  /\ UNCHANGED <<df, seed, ratios, prev>>

\* _stratified_split(df, label_col, seed, ratios)
stratified_split ==
  /\ pc = "ready"
  /\ fn' = "stratified"
  /\ IF ~ValidRatios(ratios)
     THEN \* line 49: the assertion fails before the generator exists
          /\ pc' = "raised"
          /\ err' = "AssertionError"
          /\ rng' = <<>>
          /\ shuffles' = 0
          /\ train' = <<>> /\ val' = <<>> /\ test' = <<>>
     ELSE LET res == StratifiedParts(df, seed, ratios)
              groups == Len(GroupKeys(df))
          IN  IF res.parts.train = <<>>
              THEN \* line 67: pd.concat of an empty list raises ValueError
                   /\ pc' = "raised"
                   /\ err' = "ValueError"
                   /\ rng' = <<res.rng>>
                   /\ shuffles' = groups
                   /\ train' = <<>> /\ val' = <<>> /\ test' = <<>>
              ELSE /\ pc' = "returned"
                   /\ err' = ""
                   /\ rng' = <<res.rng>>
                   /\ shuffles' = groups + 3
                   /\ train' = sample(concat(res.parts.train), seed)
                   /\ val' = sample(concat(res.parts.val), seed)
                   /\ test' = sample(concat(res.parts.test), seed)
  /\ UNCHANGED <<df, seed, ratios, prev>>

\* The next request: a new table is parsed; the finished call is remembered.
\* Two consecutive calls are followed, which is what the two-call properties
\* compare.
NextRequest ==
  /\ pc # "ready"
  /\ prev = <<>>
  /\ \E d \in Tables : df' = d
  /\ prev' = <<CallRecord>>
  /\ pc' = "ready"
  /\ fn' = ""
  /\ train' = <<>>
  /\ val' = <<>>
  /\ test' = <<>>
  /\ err' = ""
  /\ shuffles' = 0
  /\ UNCHANGED <<seed, ratios, rng>>

Next == split_dataframe \/ stratified_split \/ NextRequest

Spec == Init /\ [][Next]_vars

----------------------------------------------------------------------------
\* Properties

\* Rows of `part` whose label is k.
Count(k, part) == Cardinality({p \in 1..Len(part) : df[part[p]] = k})

\* Rows of table d whose label is k.
GroupSize(d, k) == Cardinality({i \in 1..Len(d) : d[i] = k})

Returned(f) == fn = f /\ pc = "returned"

AllOut == train \o val \o test

\* Where the r-th row of group k of table d went.
Assignment(d, tr, va, k) ==
  LET rows == SelectSeq(SubSeq([i \in 1..Len(d) |-> i], 1, Len(d)),
                        LAMBDA i : d[i] = k)
  IN  [r \in 1..Len(rows) |->
         IF rows[r] \in Range(tr) THEN "train"
         ELSE IF rows[r] \in Range(va) THEN "val" ELSE "test"]

KeyIndex(k) == CHOOSE i \in 1..Len(KeyOrder) : KeyOrder[i] = k

BothStratified ==
  /\ prev # <<>>
  /\ Returned("stratified")
  /\ prev[1].fn = "stratified"
  /\ prev[1].pc = "returned"
  /\ prev[1].seed = seed
  /\ prev[1].ratios = ratios

SumsToOne(r) == Abs(r[1] + r[2] + r[3] - Denom) < 10

\* C1 (completeness): whenever either splitter returns for a non-empty table,
\* the three sizes add up to the number of rows and every row of the table is
\* in exactly one of Train, Validation, Test.
C1_Completeness ==
  (pc = "returned" /\ Len(df) > 0) =>
    /\ Len(train) + Len(val) + Len(test) = Len(df)
    /\ \A i \in 1..Len(df) :
         Cardinality({p \in 1..Len(AllOut) : AllOut[p] = i}) = 1
    /\ Range(AllOut) = 1..Len(df)

C1_Witness ==
  /\ Returned("stratified")
  /\ Len(df) >= 4
  /\ Range(df) = {"tcp", NA}
  /\ Len(train) > 0
  /\ Len(test) > 0

\* C2 (determinism): a call with the same splitter, table, seed and ratios as
\* the call before it ends the same way, with the same three partitions in
\* the same row order.
C2_Determinism ==
  (/\ prev # <<>>
   /\ pc # "ready"
   /\ prev[1].fn = fn
   /\ prev[1].df = df
   /\ prev[1].seed = seed
   /\ prev[1].ratios = ratios) =>
    /\ prev[1].pc = pc
    /\ prev[1].err = err
    /\ prev[1].train = train
    /\ prev[1].val = val
    /\ prev[1].test = test

C2_Witness ==
  /\ prev # <<>>
  /\ Returned("stratified")
  /\ prev[1].fn = fn
  /\ prev[1].df = df
  /\ Len(df) >= 4
  /\ prev[1].train = train
  /\ AllOut # SubSeq([i \in 1..Len(df) |-> i], 1, Len(df))

\* C3 (uniform proportion law): _split_dataframe never fails; for n rows it
\* returns floor(0.6 n) rows in Train, floor(0.8 n) - floor(0.6 n) in
\* Validation and the other n - floor(0.8 n) in Test; 60, 20, 20 for n = 100.
C3_UniformSizes ==
  (fn = "uniform" /\ pc # "ready") =>
    LET n  == Len(df)
        t1 == (6 * n) \div 10
        t2 == (8 * n) \div 10
    IN  /\ pc = "returned"
        /\ Len(train) = t1
        /\ Len(val) = t2 - t1
        /\ Len(test) = n - t2
        /\ n = 100 => (Len(train) = 60 /\ Len(val) = 20 /\ Len(test) = 20)

C3_Witness ==
  /\ Returned("uniform")
  /\ Len(df) = 100
  /\ Len(train) = 60
  /\ Len(val) = 20
  /\ Len(test) = 20

C6_EmptyInputError ==
  (pc # "ready" /\ Len(df) = 0) => (pc = "raised" /\ err = "EmptyInputError")

\* C7 as stated: after _stratified_split no partition is empty and, for every
\* label value L of the table, the share of L in Train differs from its share
\* in the table by at most (number of groups) / min(|Train|,|Val|,|Test|).
ShareBound ==
  LET G == Cardinality(Range(df))
      T == Len(train)
      N == Len(df)
      m == Min2(Len(train), Min2(Len(val), Len(test)))
  IN  \A L \in Range(df) :
        Abs(Count(L, train) * N - GroupSize(df, L) * T) * m <= G * T * N

C7_BoundWellDefined ==
  Returned("stratified") =>
    /\ Len(train) > 0
    /\ Len(val) > 0
    /\ Len(test) > 0
    /\ ShareBound

\* C7 (amended): whenever _stratified_split returns three non-empty
\* partitions, the share of every label value L in Train differs from its
\* share in the table by at most (number of groups) / min(|Train|,|Val|,|Test|).
C7_BoundWhenNonEmpty ==
  (/\ Returned("stratified")
   /\ Len(train) > 0
   /\ Len(val) > 0
   /\ Len(test) > 0) => ShareBound

C7_Witness ==
  /\ Returned("stratified")
  /\ Len(val) > Cardinality(Range(df))
  /\ Len(test) > Cardinality(Range(df))
  /\ Len(train) > Cardinality(Range(df))
  /\ Cardinality(Range(df)) = 3

\* C8 (no label value is lost): when _stratified_split returns, every label
\* value of the table, the missing value included, labels at least one row of
\* Train, Validation or Test.
C8_NoLabelLost ==
  Returned("stratified") =>
    \A k \in Range(df) : Count(k, train) + Count(k, val) + Count(k, test) >= 1

C8_Witness ==
  /\ Returned("stratified")
  /\ GroupSize(df, NA) = 1
  /\ GroupSize(df, "tcp") >= 2
  /\ Count(NA, test) = 1

\* C9 (input unchanged): a call of either splitter, whether it returns or
\* raises, leaves the table as it was.
C9_InputUnchanged == [][pc = "ready" => df' = df]_vars

C9_Witness ==
  /\ Returned("uniform")
  /\ Len(df) >= 3
  /\ Range(df) = {"tcp", NA}
  /\ AllOut # SubSeq([i \in 1..Len(df) |-> i], 1, Len(df))

\* C10 as stated: for one seed and one ratio triple, a group of the same rows
\* is assigned to Train/Validation/Test the same way in any two tables,
\* whatever the other groups are.
C10_GroupScoped ==
  BothStratified =>
    \A k \in Range(df) :
      GroupSize(prev[1].df, k) = GroupSize(df, k) =>
        Assignment(prev[1].df, prev[1].train, prev[1].val, k)
          = Assignment(df, train, val, k)

PrecedingAgree(k) ==
  \A k2 \in Range(KeyOrder) :
    KeyIndex(k2) < KeyIndex(k) => GroupSize(prev[1].df, k2) = GroupSize(df, k2)

\* C10 (amended): the groups are shuffled one after the other, in key order,
\* by one generator seeded from the master seed; so for one seed and one ratio
\* triple a group of the same rows is assigned the same way in any two tables
\* in which the groups that precede it in key order have the same sizes.
C10_SharedGenerator ==
  BothStratified =>
    \A k \in Range(df) :
      (GroupSize(prev[1].df, k) = GroupSize(df, k) /\ PrecedingAgree(k)) =>
        Assignment(prev[1].df, prev[1].train, prev[1].val, k)
          = Assignment(df, train, val, k)

C10_Witness ==
  /\ BothStratified
  /\ prev[1].df # df
  /\ GroupSize(df, "tcp") >= 2
  /\ GroupSize(prev[1].df, "tcp") = GroupSize(df, "tcp")
  /\ GroupSize(df, NA) >= 2
  /\ GroupSize(prev[1].df, NA) = GroupSize(df, NA)
  /\ Assignment(df, train, val, NA) # [r \in 1..GroupSize(df, NA) |-> "test"]

====
